---- MODULE Spec2Model ----
(***************************************************************************)
(* A model of smartflow.cfd_env.CFDEnv: a vectorized environment that      *)
(* drives a fleet of CFD simulations through a shared tensor store.  The   *)
(* learner calls reset / step_async / step_wait / close; the simulations   *)
(* are separate processes that deposit state and reward tensors and        *)
(* consume action tensors.  The coordinator's retrieval loops (_get_state, *)
(* _get_reward) are modelled one store operation at a time, so that the    *)
(* simulations interleave with them.                                       *)
(***************************************************************************)
EXTENDS Integers, Sequences, FiniteSets, TLC

(* ------------------------------------------------------------------ *)
(* Configuration (conf.environment / conf.runner)                      *)
(* ------------------------------------------------------------------ *)
n_cfds == 2
agents_per_cfd == 2
cfd_state_dim == 1
cfd_action_dim == 1
cfd_reward_dim == 1
steps_per_episode == 2
total_iterations == 2
save_trajectories == TRUE

n_total_agents == n_cfds * agents_per_cfd
agent_state_dim == cfd_state_dim
agent_action_dim == cfd_action_dim

(* Bounds of the model.  poll_tensor's number of tries is a configured    *)
(* value; MaxIteration caps the number of reset() calls of one run.       *)
PollTries == 2
MaxIteration == 2

Cfds == 0 .. n_cfds - 1
Agents == 0 .. n_total_agents - 1

(* ------------------------------------------------------------------ *)
(* Store keys: f"env_{n:03d}.state" etc.                               *)
(* ------------------------------------------------------------------ *)
RECURSIVE Digits(_)
Digits(n) == IF n < 10 THEN <<n>> ELSE Append(Digits(n \div 10), n % 10)

RECURSIVE ZeroPad(_, _)
ZeroPad(ds, width) == IF Len(ds) >= width THEN ds ELSE ZeroPad(<<0>> \o ds, width)

(* format(n, "03d"): decimal digits, zero padded to at least 3 places *)
Format03d(n) == ZeroPad(Digits(n), 3)

Key(n, kind) == <<"env_", Format03d(n), kind>>

None == <<>>

(* ------------------------------------------------------------------ *)
(* Buffers                                                             *)
(* ------------------------------------------------------------------ *)
Zeros(n) == [p \in 0 .. n - 1 |-> 0]
Zeros2(rows, cols) == [r \in 0 .. rows - 1 |-> Zeros(cols)]

(* The three strategies a concrete environment supplies.  The source   *)
(* declares them abstract; they are modelled as the canonical index    *)
(* mapping agent = cfd * agents_per_cfd + slot.                        *)
_redistribute_state(cfd_states) ==
    [a \in Agents |->
        [d \in 0 .. agent_state_dim - 1 |->
            cfd_states[a \div agents_per_cfd][(a % agents_per_cfd) * cfd_state_dim + d]]]

_recalculate_reward(cfd_rewards) ==
    [a \in Agents |-> cfd_rewards[a \div agents_per_cfd][(a % agents_per_cfd) * cfd_reward_dim]]

_rescale_action(agent_actions) ==
    [a \in Agents |-> [k \in 0 .. agent_action_dim - 1 |-> 2 * agent_actions[a][k] + 1]]

(* The action batches the learner may pass to step_async *)
ActionBatches ==
    { [a \in Agents |-> [k \in 0 .. agent_action_dim - 1 |-> c + a + k]] : c \in {1, 6} }

(* ------------------------------------------------------------------ *)
(* What a simulation deposits: the tensor of simulation g at step s    *)
(* (s = 0 is the initial state).  Values identify their producer.      *)
(* ------------------------------------------------------------------ *)
StateTensor(g, s) == [p \in 0 .. agents_per_cfd * cfd_state_dim - 1 |-> 100 * (g + 1) + 10 * s + p + 1]
RewardTensor(g, s) == [p \in 0 .. agents_per_cfd * cfd_reward_dim - 1 |-> 100 * (g + 1) + 50 + 10 * s + p + 1]

VARIABLES
    iteration, episode_steps, episode_rewards, _waiting,
    state_key, action_key, reward_key, models,
    _cfd_states, _agent_states, _cfd_rewards, _agent_rewards,
    _agent_actions, _scaled_agent_actions,
    envs,       \* env_idx of each slot (self.envs[i]["env_idx"])
    traj,       \* trajectory files: env_idx -> lines per log
    store,      \* the tensor store: key -> tensor
    sims,       \* the simulation process of each slot of the current fleet
    pc, frame,  \* position and locals of the call in progress
    ret,        \* what the last finished call returned or raised
    last,       \* record of the last finished call (what it read, where it failed)
    io,         \* store operations of the coordinator's latest step
    hist,       \* history of the run (keys assigned, launches, stops, ...)
    sc,         \* a scatter of one action batch, for the layout of _set_action
    ctor        \* a construction: the configuration and what __init__ made of it

vars == <<iteration, episode_steps, episode_rewards, _waiting,
          state_key, action_key, reward_key, models,
          _cfd_states, _agent_states, _cfd_rewards, _agent_rewards,
          _agent_actions, _scaled_agent_actions,
          envs, traj, store, sims, pc, frame, ret, last, io, hist, sc, ctor>>

(* ------------------------------------------------------------------ *)
(* Records                                                             *)
(* ------------------------------------------------------------------ *)
ZeroObs == Zeros2(n_total_agents, agent_state_dim)
NoInfos ==
    [a \in Agents |-> [terminal |-> FALSE, terminal_observation |-> Zeros(agent_state_dim),
                       episode |-> [r |-> 0, l |-> 0]]]
NoPre ==
    [cfd_states |-> Zeros2(n_cfds, agents_per_cfd * cfd_state_dim), agent_states |-> ZeroObs,
     episode_steps |-> 0, episode_rewards |-> Zeros(n_total_agents), waiting |-> FALSE,
     iteration |-> 0, pending |-> FALSE, failed |-> "none", resetOk |-> FALSE,
     retry |-> FALSE]
NoSaved ==
    [rewards |-> Zeros(n_total_agents), dones |-> [a \in Agents |-> FALSE], infos |-> NoInfos]
NoFrame ==
    [op |-> "none", nested |-> FALSE, kind |-> "none", i |-> 0, tries |-> 0,
     buf |-> Zeros2(n_cfds, 1), saved |-> NoSaved, reads |-> <<>>, pre |-> NoPre, nth |-> 0,
     lines |-> 0, stopped |-> 0, sum |-> Zeros(n_total_agents)]
NoRet ==
    [op |-> "none", status |-> "none", observations |-> ZeroObs,
     rewards |-> Zeros(n_total_agents), dones |-> [a \in Agents |-> FALSE], infos |-> NoInfos]
NoLast ==
    [reads |-> <<>>, pre |-> NoPre, failKind |-> "none", failAt |-> 0, inReset |-> FALSE,
     nth |-> 0, resets |-> 0, closed |-> FALSE, lines |-> 0,
     stopped |-> 0, sum |-> Zeros(n_total_agents)]
NoSim == [gidx |-> 0, phase |-> "none", step |-> 0, sput |-> FALSE, rput |-> FALSE]

Snapshot ==
    [cfd_states |-> _cfd_states, agent_states |-> _agent_states,
     episode_steps |-> episode_steps, episode_rewards |-> episode_rewards,
     waiting |-> _waiting, iteration |-> iteration, pending |-> hist.pending,
     failed |-> hist.failed, resetOk |-> hist.resetOk, retry |-> FALSE]

NoScatter == [stage |-> "off"]

NoConstruct == [stage |-> "off"]

InitEnv ==
    /\ iteration = 0
    \* episode_steps and episode_rewards are created by the first reset(); no
    \* code reads them earlier (step_wait cannot pass _get_state while the
    \* keys are None)
    /\ episode_steps = 0
    /\ episode_rewards = Zeros(n_total_agents)
    /\ _waiting = FALSE
    /\ state_key = [i \in Cfds |-> None]
    /\ action_key = [i \in Cfds |-> None]
    /\ reward_key = [i \in Cfds |-> None]
    /\ models = [i \in Cfds |-> None]
    /\ _cfd_states = Zeros2(n_cfds, agents_per_cfd * cfd_state_dim)
    /\ _cfd_rewards = Zeros2(n_cfds, agents_per_cfd * cfd_reward_dim)
    /\ _agent_states = ZeroObs
    /\ _agent_actions = Zeros2(n_total_agents, agent_action_dim)
    /\ _agent_rewards = Zeros(n_total_agents)
    /\ _scaled_agent_actions = Zeros2(n_total_agents, agent_action_dim)
    /\ envs = [i \in Cfds |-> None]
    /\ traj = << >>
    /\ store = << >>
    /\ sims = [i \in Cfds |-> NoSim]
    /\ pc = "idle"
    /\ frame = NoFrame
    /\ ret = NoRet
    /\ last = NoLast
    /\ io = << >>
    /\ hist = [keys |-> << >>, launched |-> 0, stops |-> [i \in Cfds |-> 0],
               restopped |-> FALSE, delivered |-> {}, twice |-> FALSE, undeleted |-> {},
               asyncs |-> 0, okWaits |-> 0, pending |-> FALSE, resetOk |-> FALSE,
               failed |-> "none", put |-> {}, overlap |-> FALSE,
               sum |-> Zeros(n_total_agents)]

Init == InitEnv /\ sc = NoScatter /\ ctor = NoConstruct

(* ------------------------------------------------------------------ *)
(* The tensor store (smartredis client).  An entry holds the tensor    *)
(* and, for the record, which simulation step produced it.             *)
(* ------------------------------------------------------------------ *)
Exists(key) == key \in DOMAIN store
Put(st, key, entry) == [k \in DOMAIN st \cup {key} |-> IF k = key THEN entry ELSE st[k]]
Delete(st, key) == [k \in DOMAIN st \ {key} |-> st[k]]

(* ------------------------------------------------------------------ *)
(* reset(): keys and counters of the new iteration                     *)
(* ------------------------------------------------------------------ *)
(* variant: the iteration is not scaled by the fleet size *)
EnvIdx_unscaled(it, i) == it + i

EnvIdx(it, i) == it * n_cfds + i

NewKeys(kind) == [i \in Cfds |-> Key(EnvIdx(iteration, i), kind)]

(* runtime.exp.finished(handle) *)
Finished(i) == sims[i].phase = "finished"

(* variant: only the first slot is looked at *)
StopIssued_first(i) == i = 0 /\ models[i] # None /\ ~Finished(i)

(* _stop_envs(): the slots whose process is sent a stop *)
StopIssued(i) == models[i] # None /\ ~Finished(i)

StoppedSims == [i \in Cfds |-> IF StopIssued(i) THEN [sims[i] EXCEPT !.phase = "stopped"] ELSE sims[i]]

(* the processes of the fleet that run on after _stop_envs() *)
Running == {"starting", "await", "compute"}

StillRunning == {i \in Cfds : StoppedSims[i].phase \in Running}

CountStops(stops) == [i \in Cfds |-> stops[i] + (IF StopIssued(i) THEN 1 ELSE 0)]

(* variant: the handles are kept after the stop *)
ClearedModels_kept == models

(* _stop_envs(), line 492: every handle is cleared *)
ClearedModels == [i \in Cfds |-> None]

(* _start_envs(): one process per slot, named by its env_idx *)
LaunchedSims ==
    [i \in Cfds |-> [gidx |-> EnvIdx(iteration, i), phase |-> "starting", step |-> 0,
                     sput |-> FALSE, rput |-> FALSE]]

(* _save_trajectories(state_only): one line appended per log and slot *)
Lines(tr, g) ==
    IF g \in DOMAIN tr THEN tr[g] ELSE [state |-> 0, action |-> 0, reward |-> 0, scaled_action |-> 0]

(* variant: state_only is ignored *)
SaveTrajectories_all(tr, idx, state_only) ==
    IF ~save_trajectories THEN tr
    ELSE LET gs == {idx[i] : i \in Cfds}
         IN [g \in DOMAIN tr \cup gs |->
                IF g \in gs
                THEN [state |-> Lines(tr, g).state + 1,
                      action |-> Lines(tr, g).action + 1,
                      reward |-> Lines(tr, g).reward + 1,
                      scaled_action |-> Lines(tr, g).scaled_action + 1]
                ELSE tr[g]]

SaveTrajectories(tr, idx, state_only) ==
    IF ~save_trajectories THEN tr
    ELSE LET gs == {idx[i] : i \in Cfds}
             add == IF state_only THEN 0 ELSE 1
         IN [g \in DOMAIN tr \cup gs |->
                IF g \in gs
                THEN [state |-> Lines(tr, g).state + 1,
                      action |-> Lines(tr, g).action + add,
                      reward |-> Lines(tr, g).reward + add,
                      scaled_action |-> Lines(tr, g).scaled_action + add]
                ELSE tr[g]]

(* the number of lines one call of _save_trajectories appends *)
RECURSIVE TotalLines(_, _)
TotalLines(tr, gs) ==
    IF gs = {} THEN 0
    ELSE LET g == CHOOSE x \in gs : TRUE
         IN tr[g].state + tr[g].action + tr[g].reward + tr[g].scaled_action
               + TotalLines(tr, gs \ {g})

Appended(tr, idx, state_only) ==
    LET after == SaveTrajectories(tr, idx, state_only)
    IN TotalLines(after, DOMAIN after) - TotalLines(tr, DOMAIN tr)

(* The store as far as later calls can see it.  The entries of the     *)
(* fleet that reset() replaces stay in the store under keys that       *)
(* neither the coordinator nor a new simulation names again, unless a  *)
(* new key equals an old one; only entries under the new keys are kept *)
(* in the model.                                                       *)
Reachable(st) ==
    LET new == {Key(EnvIdx(iteration, i), kind) :
                    i \in Cfds, kind \in {".state", ".action", ".reward"}}
    IN [k \in DOMAIN st \cap new |-> st[k]]

(* Likewise the trajectory files: those of the replaced fleet are not  *)
(* appended to again unless an env_idx repeats.                        *)
Current(tr) == [g \in DOMAIN tr \cap {EnvIdx(iteration, i) : i \in Cfds} |-> tr[g]]

(* The part of reset() that runs before the first poll (lines 155-185) *)
(* variant: the episode counters are not cleared *)
ResetPrefix_keep(tr) ==
    /\ envs' = [i \in Cfds |-> EnvIdx(iteration, i)]
    /\ state_key' = NewKeys(".state")
    /\ action_key' = NewKeys(".action")
    /\ reward_key' = NewKeys(".reward")
    /\ episode_steps' = 0
    /\ episode_rewards' = episode_rewards
    /\ iteration' = iteration + 1
    /\ sims' = LaunchedSims
    /\ models' = [i \in Cfds |-> <<EnvIdx(iteration, i)>>]
    /\ store' = Reachable(store)
    /\ traj' = Current(tr)

ResetPrefix(tr) ==
    /\ envs' = [i \in Cfds |-> EnvIdx(iteration, i)]
    /\ state_key' = NewKeys(".state")
    /\ action_key' = NewKeys(".action")
    /\ reward_key' = NewKeys(".reward")
    /\ episode_steps' = 0
    /\ episode_rewards' = Zeros(n_total_agents)
    /\ iteration' = iteration + 1
    /\ sims' = LaunchedSims
    /\ models' = [i \in Cfds |-> <<EnvIdx(iteration, i)>>]
    /\ store' = Reachable(store)
    /\ traj' = Current(tr)

ResetHist(h) ==
    [h EXCEPT !.keys = Append(@, {NewKeys(kind)[i] :
                                     i \in Cfds, kind \in {".state", ".action", ".reward"}}),
              !.launched = @ + 1,
              !.stops = [i \in Cfds |-> 0],
              !.restopped = @ \/ (\E i \in Cfds : CountStops(hist.stops)[i] > 1),
              !.delivered = {},
              !.asyncs = 0,
              !.okWaits = 0,
              !.resetOk = FALSE,
              !.failed = "none",
              !.put = {},
              !.overlap = @ \/ StillRunning # {},
              !.sum = Zeros(n_total_agents)]

GetStateFrame(op, nested, saved, reads, pre, nth) ==
    [op |-> op, nested |-> nested, kind |-> "state", i |-> 0, tries |-> 0,
     buf |-> Zeros2(n_cfds, agents_per_cfd * cfd_state_dim),
     saved |-> saved, reads |-> reads, pre |-> pre, nth |-> nth, lines |-> 0,
     stopped |-> IF op = "reset" THEN Cardinality({i \in Cfds : StopIssued(i)}) ELSE 0,
     sum |-> Zeros(n_total_agents)]

(* ------------------------------------------------------------------ *)
(* How a call ends                                                     *)
(* ------------------------------------------------------------------ *)
OuterOp == IF frame.nested THEN "step_wait" ELSE frame.op

(* An exception leaves the call in progress (and step_wait, when the   *)
(* failing reset() was called by it) and reaches the learner.          *)
Raise(status) ==
    /\ pc' = "idle"
    /\ frame' = NoFrame
    /\ ret' = [NoRet EXCEPT !.op = OuterOp, !.status = status]
    /\ last' = [reads |-> frame.reads, pre |-> frame.pre, failKind |-> frame.kind,
                failAt |-> frame.i, inReset |-> frame.op = "reset",
                nth |-> 0, resets |-> IF frame.nested THEN 1 ELSE 0, closed |-> FALSE,
                lines |-> frame.lines, stopped |-> frame.stopped, sum |-> frame.sum]

(* ------------------------------------------------------------------ *)
(* reset()                                                             *)
(* ------------------------------------------------------------------ *)
Reset ==
    /\ pc = "idle"
    /\ iteration < MaxIteration
    /\ ResetPrefix(traj)
    /\ hist' = ResetHist(hist)
    /\ pc' = "poll"
    /\ frame' = GetStateFrame("reset", FALSE, NoSaved, << >>, Snapshot, 0)
    /\ io' = << >>
    /\ ret' = NoRet
    /\ last' = NoLast
    /\ UNCHANGED <<_waiting, _cfd_states, _agent_states, _cfd_rewards, _agent_rewards,
                   _agent_actions, _scaled_agent_actions, sc, ctor>>

(* ------------------------------------------------------------------ *)
(* step_async(actions)                                                 *)
(* ------------------------------------------------------------------ *)
(* _set_action: the buffer written for simulation i (lines 326-331)    *)
ActionIndex(i, j, dim, apc) == (i * apc + j) * dim

SetActionBuffer(scaled, i, dim, apc) ==
    [q \in 0 .. apc * dim - 1 |-> scaled[ActionIndex(i, q \div dim, dim, apc)][q % dim]]

IndexOK(scaled, i, dim, apc) ==
    \A j \in 0 .. apc - 1 : ActionIndex(i, j, dim, apc) \in DOMAIN scaled

PutFails(scaled, i) ==
    \/ ~IndexOK(scaled, i, cfd_action_dim, agents_per_cfd)
    \/ action_key[i] = None

(* the simulations whose put_tensor is performed before any failure *)
PutDone(scaled) == {i \in Cfds : \A j \in 0 .. i : ~PutFails(scaled, j)}

RECURSIVE PutActions(_, _, _)
PutActions(st, scaled, todo) ==
    IF todo = {} THEN st
    ELSE LET i == CHOOSE x \in todo : \A y \in todo : x <= y
         IN PutActions(Put(st, action_key[i],
                           [tensor |-> SetActionBuffer(scaled, i, cfd_action_dim, agents_per_cfd),
                            tag |-> <<"action", i>>]),
                       scaled, todo \ {i})

(* variant: the pending check is missing *)
AsyncRejected_never == FALSE

AsyncRejected == _waiting

StepAsync(actions) ==
    /\ pc = "idle"
    /\ IF AsyncRejected
       THEN /\ ret' = [NoRet EXCEPT !.op = "step_async", !.status = "ValueError"]
            /\ io' = << >>
            /\ last' = [NoLast EXCEPT !.pre = Snapshot]
            /\ UNCHANGED <<_waiting, _agent_actions, _scaled_agent_actions, store, hist>>
       ELSE LET scaled == _rescale_action(actions)
                done == PutDone(scaled)
            IN /\ _agent_actions' = actions
               /\ _waiting' = TRUE
               /\ _scaled_agent_actions' = scaled
               /\ store' = PutActions(store, scaled, done)
               /\ io' = [n \in 1 .. Cardinality(done) |-> [op |-> "put", key |-> action_key[n - 1]]]
               /\ ret' = [NoRet EXCEPT !.op = "step_async",
                                       !.status = IF done = Cfds THEN "ok"
                                                  ELSE IF action_key[Cardinality(done)] = None
                                                       THEN "TypeError" ELSE "IndexError"]
               /\ last' = [NoLast EXCEPT !.pre = Snapshot]
               /\ hist' = [hist EXCEPT !.pending = TRUE, !.asyncs = @ + 1, !.failed = "none",
                                           !.put = done]
    /\ UNCHANGED <<iteration, episode_steps, episode_rewards, state_key, action_key,
                   reward_key, models, _cfd_states, _agent_states, _cfd_rewards,
                   _agent_rewards, envs, traj, sims, pc, frame, sc, ctor>>

(* ------------------------------------------------------------------ *)
(* step_wait(): entry                                                  *)
(* ------------------------------------------------------------------ *)
WaitRejected == ~_waiting

StepWait ==
    /\ pc = "idle"
    /\ IF WaitRejected
       THEN /\ ret' = [NoRet EXCEPT !.op = "step_wait", !.status = "ValueError"]
            /\ last' = [NoLast EXCEPT !.pre = Snapshot]
            /\ UNCHANGED <<pc, frame>>
       ELSE /\ pc' = "poll"
            \* pre.retry: the call before this one was a step_wait that timed
            \* out in its own retrieval, so this call is for the same step
            /\ frame' = GetStateFrame("step_wait", FALSE, NoSaved, << >>,
                                      [Snapshot EXCEPT !.retry = ret.op = "step_wait"
                                                                    /\ ret.status = "Warning"
                                                                    /\ ~last.inReset],
                                      hist.okWaits + 1)
            /\ ret' = NoRet
            /\ last' = NoLast
    /\ io' = << >>
    /\ UNCHANGED <<iteration, episode_steps, episode_rewards, _waiting, state_key,
                   action_key, reward_key, models, _cfd_states, _agent_states,
                   _cfd_rewards, _agent_rewards, _agent_actions, _scaled_agent_actions,
                   envs, traj, store, sims, hist, sc, ctor>>

(* ------------------------------------------------------------------ *)
(* close()                                                             *)
(* ------------------------------------------------------------------ *)
Close ==
    /\ pc = "idle"
    /\ sims' = StoppedSims
    /\ models' = ClearedModels
    /\ hist' = [hist EXCEPT !.stops = CountStops(@)]
    /\ ret' = [NoRet EXCEPT !.op = "close", !.status = "ok"]
    /\ last' = [NoLast EXCEPT !.pre = Snapshot, !.closed = TRUE,
                              !.stopped = Cardinality({i \in Cfds : StopIssued(i)})]
    /\ io' = << >>
    /\ UNCHANGED <<iteration, episode_steps, episode_rewards, _waiting, state_key,
                   action_key, reward_key, _cfd_states, _agent_states, _cfd_rewards,
                   _agent_rewards, _agent_actions, _scaled_agent_actions, envs, traj,
                   store, pc, frame, sc, ctor>>

(* ------------------------------------------------------------------ *)
(* _get_state / _get_reward: one store operation per step              *)
(* ------------------------------------------------------------------ *)
(* variant: the slots are paired with the keys in reverse *)
CurKey_reversed ==
    IF frame.kind = "state" THEN state_key[n_cfds - 1 - frame.i]
    ELSE reward_key[n_cfds - 1 - frame.i]

CurKey == IF frame.kind = "state" THEN state_key[frame.i] ELSE reward_key[frame.i]

Attributes == <<iteration, episode_steps, episode_rewards, _waiting, state_key,
                action_key, reward_key, models, _cfd_states, _agent_states,
                _cfd_rewards, _agent_rewards, _agent_actions, _scaled_agent_actions,
                envs, traj>>

Coordinator == <<Attributes, sc, ctor>>

(* variant: one look-up more than the budget *)
PollExhausted_late(tries) == tries >= PollTries

(* poll_tensor's third argument, self.poll_time, is the number of      *)
(* look-ups; its second argument, 100, is the pause between two of     *)
(* them in milliseconds. tries counts the look-ups that found nothing. *)
PollExhausted(tries) == tries + 1 >= PollTries

(* client.poll_tensor(key, 100, poll_time): the key is looked up until *)
(* it exists or the tries are used up; the result is not used.         *)
PollTensor ==
    /\ pc = "poll"
    /\ IF CurKey = None
       THEN /\ Raise("TypeError")
            /\ io' = << >>
       ELSE /\ io' = <<[op |-> "poll", key |-> CurKey]>>
            /\ UNCHANGED <<ret, last>>
            /\ IF Exists(CurKey) \/ PollExhausted(frame.tries)
               THEN /\ pc' = "get"
                    /\ frame' = frame
               ELSE /\ pc' = "poll"
                    /\ frame' = [frame EXCEPT !.tries = @ + 1]
    /\ UNCHANGED <<Coordinator, store, sims, hist>>

(* variant: a failed read is swallowed and the slot keeps its zeros *)
GetTensor_swallow ==
    /\ pc = "get"
    /\ io' = <<[op |-> "get", key |-> CurKey]>>
    /\ IF Exists(CurKey)
       THEN /\ pc' = "delete"
            /\ frame' = [frame EXCEPT
                   !.buf[frame.i] = store[CurKey].tensor,
                   !.reads = Append(@, [kind |-> frame.kind, slot |-> frame.i,
                                        key |-> CurKey, tag |-> store[CurKey].tag,
                                        inReset |-> frame.op = "reset",
                                        want |-> IF frame.op = "reset" THEN 0 ELSE hist.asyncs])]
            /\ hist' = [hist EXCEPT !.undeleted = @ \cup {CurKey}]
       ELSE /\ pc' = IF frame.i + 1 < n_cfds THEN "poll" ELSE "after"
            /\ frame' = [frame EXCEPT !.i = @ + 1, !.tries = 0]
            /\ hist' = hist
    /\ UNCHANGED <<Coordinator, store, sims, ret, last>>

(* variant: the tensor is written straight into self._cfd_states *)
GetTensor_inplace ==
    /\ pc = "get"
    /\ io' = <<[op |-> "get", key |-> CurKey]>>
    /\ IF Exists(CurKey)
       THEN /\ pc' = "delete"
            /\ frame' = [frame EXCEPT
                   !.buf[frame.i] = store[CurKey].tensor,
                   !.reads = Append(@, [kind |-> frame.kind, slot |-> frame.i,
                                        key |-> CurKey, tag |-> store[CurKey].tag,
                                        inReset |-> frame.op = "reset",
                                        want |-> IF frame.op = "reset" THEN 0 ELSE hist.asyncs])]
            /\ _cfd_states' = IF frame.kind = "state"
                              THEN [_cfd_states EXCEPT ![frame.i] = store[CurKey].tensor]
                              ELSE _cfd_states
            /\ hist' = [hist EXCEPT !.undeleted = @ \cup {CurKey}]
            /\ UNCHANGED <<ret, last>>
       ELSE /\ Raise("Warning")
            /\ hist' = hist
            /\ UNCHANGED _cfd_states
    /\ UNCHANGED <<iteration, episode_steps, episode_rewards, _waiting, state_key,
                   action_key, reward_key, models, _agent_states,
                   _cfd_rewards, _agent_rewards, _agent_actions, _scaled_agent_actions,
                   envs, traj, store, sims, sc, ctor>>

(* the record of a step_wait that timed out in its own retrieval after *)
(* it had read a key of the pending step                               *)
FailedStep(h) ==
    IF frame.op = "step_wait" /\ frame.reads # << >>
    THEN [h EXCEPT !.failed = "partial"]
    ELSE h

(* variant: the key is left in the store *)
DeleteTensor_keep ==
    /\ pc = "delete"
    /\ io' = <<[op |-> "delete", key |-> CurKey]>>
    /\ hist' = [hist EXCEPT !.undeleted = @ \ {CurKey}]
    /\ pc' = IF frame.i + 1 < n_cfds THEN "poll" ELSE "after"
    /\ frame' = [frame EXCEPT !.i = @ + 1, !.tries = 0]
    /\ UNCHANGED <<Coordinator, store, sims, ret, last>>

(* client.get_tensor(key) into the local batch; an absent key raises,  *)
(* which the except clause turns into a Warning                        *)
GetTensor ==
    /\ pc = "get"
    /\ io' = <<[op |-> "get", key |-> CurKey]>>
    /\ IF Exists(CurKey)
       THEN /\ pc' = "delete"
            /\ frame' = [frame EXCEPT
                   !.buf[frame.i] = store[CurKey].tensor,
                   !.reads = Append(@, [kind |-> frame.kind, slot |-> frame.i,
                                        key |-> CurKey, tag |-> store[CurKey].tag,
                                        inReset |-> frame.op = "reset",
                                        want |-> IF frame.op = "reset" THEN 0 ELSE hist.asyncs])]
            /\ hist' = [hist EXCEPT !.undeleted = @ \cup {CurKey}]
            /\ UNCHANGED <<ret, last>>
       ELSE /\ Raise("Warning")
            /\ hist' = FailedStep(hist)
    /\ UNCHANGED <<Coordinator, store, sims>>

(* client.delete_tensor(key), then the next simulation *)
DeleteTensor ==
    /\ pc = "delete"
    /\ io' = <<[op |-> "delete", key |-> CurKey]>>
    /\ store' = Delete(store, CurKey)
    /\ hist' = [hist EXCEPT !.undeleted = @ \ {CurKey}]
    /\ pc' = IF frame.i + 1 < n_cfds THEN "poll" ELSE "after"
    /\ frame' = [frame EXCEPT !.i = @ + 1, !.tries = 0]
    /\ UNCHANGED <<Coordinator, sims, ret, last>>

(* What the learner has been handed: each deposit at most once *)
Deliver(h, reads) ==
    LET tags == {reads[n].tag : n \in DOMAIN reads}
    IN [h EXCEPT !.delivered = @ \cup tags,
                 !.twice = @ \/ (tags \cap h.delivered # {})
                             \/ (\E m, n \in DOMAIN reads : m # n /\ reads[m].tag = reads[n].tag)]

(* ------------------------------------------------------------------ *)
(* After _get_state: reset() returns; step_wait() goes on to rewards   *)
(* ------------------------------------------------------------------ *)
(* variant: the observations of the finished episode are returned *)
StepWaitReturn_unsubstituted(observations, saved) ==
    [op |-> "step_wait", status |-> "ok",
     observations |-> [a \in Agents |-> saved.infos[a].terminal_observation],
     rewards |-> saved.rewards, dones |-> saved.dones, infos |-> saved.infos]

(* step_wait's return value when it has called reset(): line 275      *)
(* rebinds observations; rewards, dones and infos were built before.   *)
StepWaitReturn(observations, saved) ==
    [op |-> "step_wait", status |-> "ok", observations |-> observations,
     rewards |-> saved.rewards, dones |-> saved.dones, infos |-> saved.infos]

AfterGetState ==
    /\ pc = "after"
    /\ frame.kind = "state"
    /\ _cfd_states' = frame.buf
    /\ _agent_states' = _redistribute_state(frame.buf)
    /\ io' = << >>
    /\ IF frame.op = "reset"
       THEN /\ traj' = SaveTrajectories(traj, envs, TRUE)
            /\ pc' = "idle"
            /\ frame' = NoFrame
            /\ ret' = IF frame.nested
                      THEN StepWaitReturn(_redistribute_state(frame.buf), frame.saved)
                      ELSE [NoRet EXCEPT !.op = "reset", !.status = "ok",
                                         !.observations = _redistribute_state(frame.buf)]
            /\ last' = [NoLast EXCEPT !.reads = frame.reads, !.pre = frame.pre,
                                      !.inReset = TRUE, !.nth = frame.nth,
                                      !.resets = IF frame.nested THEN 1 ELSE 0,
                                      !.lines = frame.lines + Appended(traj, envs, TRUE),
                                      !.stopped = frame.stopped, !.sum = frame.sum]
            /\ hist' = IF frame.nested
                       THEN [Deliver(hist, frame.reads) EXCEPT !.pending = FALSE,
                                                               !.resetOk = TRUE]
                       ELSE [Deliver(hist, frame.reads) EXCEPT !.resetOk = TRUE]
       ELSE /\ pc' = "poll"
            /\ frame' = [frame EXCEPT !.kind = "reward", !.i = 0, !.tries = 0,
                                      !.buf = Zeros2(n_cfds, agents_per_cfd * cfd_reward_dim)]
            /\ UNCHANGED <<traj, ret, last, hist>>
    /\ UNCHANGED <<iteration, episode_steps, episode_rewards, _waiting, state_key,
                   action_key, reward_key, models, _cfd_rewards, _agent_rewards,
                   _agent_actions, _scaled_agent_actions, envs, store, sims, sc, ctor>>

(* ------------------------------------------------------------------ *)
(* After _get_reward: the rest of step_wait() (lines 239-277)          *)
(* ------------------------------------------------------------------ *)
(* variant: off by one *)
EpisodeEnded_late(steps) == steps > steps_per_episode

EpisodeEnded(steps) == steps >= steps_per_episode

(* variant: off by one *)
IterationBudgetReached_late == iteration > total_iterations

IterationBudgetReached == iteration >= total_iterations

TerminalInfos(observations, erew, steps) ==
    [a \in Agents |-> [terminal |-> TRUE, terminal_observation |-> observations[a],
                       episode |-> [r |-> erew[a], l |-> steps]]]

AfterGetReward ==
    /\ pc = "after"
    /\ frame.kind = "reward"
    /\ LET rewards == _recalculate_reward(frame.buf)
           observations == _agent_states
           steps == episode_steps + 1
           erew == [a \in Agents |-> episode_rewards[a] + rewards[a]]
           dones == [a \in Agents |-> EpisodeEnded(steps)]
           terminal == \A a \in Agents : dones[a]
           infos == IF terminal THEN TerminalInfos(observations, erew, steps) ELSE NoInfos
           result == [op |-> "step_wait", status |-> "ok", observations |-> observations,
                      rewards |-> rewards, dones |-> dones, infos |-> infos]
           \* the rewards handed out since the latest reset(), this step included
           total == [a \in Agents |-> hist.sum[a] + rewards[a]]
           done == [NoLast EXCEPT !.reads = frame.reads, !.pre = frame.pre,
                                  !.nth = frame.nth, !.lines = Appended(traj, envs, FALSE),
                                  !.sum = total]
       IN /\ _cfd_rewards' = frame.buf
          /\ _agent_rewards' = rewards
          /\ _waiting' = FALSE
          /\ io' = << >>
          /\ IF ~terminal
             THEN /\ episode_steps' = steps
                  /\ episode_rewards' = erew
                  /\ pc' = "idle"
                  /\ frame' = NoFrame
                  /\ traj' = SaveTrajectories(traj, envs, FALSE)
                  /\ ret' = result
                  /\ last' = done
                  /\ hist' = [Deliver(hist, frame.reads) EXCEPT
                                 !.pending = FALSE, !.okWaits = @ + 1, !.failed = "none",
                                 !.put = {}, !.sum = total]
                  /\ UNCHANGED <<iteration, state_key, action_key, reward_key, models,
                                 envs, sims, store>>
             ELSE IF IterationBudgetReached
             THEN \* self.close()
                  /\ episode_steps' = steps
                  /\ episode_rewards' = erew
                  /\ sims' = StoppedSims
                  /\ models' = ClearedModels
                  /\ pc' = "idle"
                  /\ frame' = NoFrame
                  /\ traj' = SaveTrajectories(traj, envs, FALSE)
                  /\ ret' = result
                  /\ last' = [done EXCEPT !.closed = TRUE,
                                          !.stopped = Cardinality({i \in Cfds : StopIssued(i)})]
                  /\ hist' = [Deliver(hist, frame.reads) EXCEPT
                                 !.pending = FALSE, !.okWaits = @ + 1, !.failed = "none",
                                 !.put = {}, !.stops = CountStops(@), !.sum = total]
                  /\ UNCHANGED <<iteration, state_key, action_key, reward_key, envs, store>>
             ELSE \* observations = self.reset()
                  /\ ResetPrefix(SaveTrajectories(traj, envs, FALSE))
                  /\ hist' = ResetHist(hist)
                  /\ pc' = "poll"
                  /\ frame' = [GetStateFrame("reset", TRUE,
                                             [rewards |-> rewards, dones |-> dones, infos |-> infos],
                                             frame.reads, frame.pre, frame.nth)
                                  EXCEPT !.lines = Appended(traj, envs, FALSE), !.sum = total]
                  /\ UNCHANGED <<ret, last>>
    /\ UNCHANGED <<_cfd_states, _agent_states, _agent_actions, _scaled_agent_actions, sc, ctor>>

(* ------------------------------------------------------------------ *)
(* The simulation processes.  A simulation deposits its initial state, *)
(* then, for each action it consumes, a state and a reward.            *)
(* ------------------------------------------------------------------ *)
SimDepositInit(i) ==
    /\ sims[i].phase = "starting"
    /\ store' = Put(store, Key(sims[i].gidx, ".state"),
                    [tensor |-> StateTensor(sims[i].gidx, 0), tag |-> <<"state", sims[i].gidx, 0>>])
    /\ sims' = [sims EXCEPT ![i].phase = "await"]
    /\ UNCHANGED <<Coordinator, pc, frame, ret, last, io, hist>>

SimTakeAction(i) ==
    /\ sims[i].phase = "await"
    /\ Key(sims[i].gidx, ".action") \in DOMAIN store
    /\ store' = Delete(store, Key(sims[i].gidx, ".action"))
    /\ sims' = [sims EXCEPT ![i].phase = "compute", ![i].step = @ + 1,
                            ![i].sput = FALSE, ![i].rput = FALSE]
    /\ UNCHANGED <<Coordinator, pc, frame, ret, last, io, hist>>

SimDepositState(i) ==
    /\ sims[i].phase = "compute"
    /\ ~sims[i].sput
    /\ store' = Put(store, Key(sims[i].gidx, ".state"),
                    [tensor |-> StateTensor(sims[i].gidx, sims[i].step),
                     tag |-> <<"state", sims[i].gidx, sims[i].step>>])
    /\ sims' = [sims EXCEPT ![i].sput = TRUE,
                            ![i].phase = IF sims[i].rput THEN "await" ELSE "compute"]
    /\ UNCHANGED <<Coordinator, pc, frame, ret, last, io, hist>>

SimDepositReward(i) ==
    /\ sims[i].phase = "compute"
    /\ ~sims[i].rput
    /\ store' = Put(store, Key(sims[i].gidx, ".reward"),
                    [tensor |-> RewardTensor(sims[i].gidx, sims[i].step),
                     tag |-> <<"reward", sims[i].gidx, sims[i].step>>])
    /\ sims' = [sims EXCEPT ![i].rput = TRUE,
                            ![i].phase = IF sims[i].sput THEN "await" ELSE "compute"]
    /\ UNCHANGED <<Coordinator, pc, frame, ret, last, io, hist>>

(* A simulation may end by itself at any time *)
SimFinish(i) ==
    /\ sims[i].phase \in {"starting", "await", "compute"}
    /\ sims' = [sims EXCEPT ![i].phase = "finished"]
    /\ UNCHANGED <<Coordinator, store, pc, frame, ret, last, io, hist>>

Next ==
    \/ Reset
    \/ \E actions \in ActionBatches : StepAsync(actions)
    \/ StepWait
    \/ Close
    \/ PollTensor
    \/ GetTensor
    \/ DeleteTensor
    \/ AfterGetState
    \/ AfterGetReward
    \/ \E i \in Cfds : SimDepositInit(i)
    \/ \E i \in Cfds : SimTakeAction(i)
    \/ \E i \in Cfds : SimDepositState(i)
    \/ \E i \in Cfds : SimDepositReward(i)
    \/ \E i \in Cfds : SimFinish(i)

Spec == Init /\ [][Next]_vars

(* ------------------------------------------------------------------ *)
(* _set_action on its own: one batch of scaled actions is scattered    *)
(* into per-simulation buffers, for several shapes                     *)
(* ------------------------------------------------------------------ *)
ScatterShapes ==
    {<<1, 1, 1>>, <<2, 2, 1>>, <<1, 1, 2>>, <<1, 2, 2>>, <<2, 1, 2>>, <<2, 2, 2>>}

ScatterInputs ==
    UNION { { [stage |-> "input", n |-> sh[1], apc |-> sh[2], dim |-> sh[3], scaled |-> b,
               out |-> << >>, status |-> "none", back |-> << >>] :
                b \in [0 .. sh[1] * sh[2] - 1 -> [0 .. sh[3] - 1 -> {1, 2}]] } :
            sh \in ScatterShapes }

ScatterInit == InitEnv /\ sc \in ScatterInputs /\ ctor = NoConstruct

(* the loop of _set_action: the buffers of the simulations before the  *)
(* first out-of-range index are written, then IndexError               *)
SetAction ==
    /\ sc.stage = "input"
    /\ LET ok == {i \in 0 .. sc.n - 1 :
                    \A h \in 0 .. i : IndexOK(sc.scaled, h, sc.dim, sc.apc)}
       IN sc' = [sc EXCEPT !.stage = "put",
                           !.out = [i \in ok |-> SetActionBuffer(sc.scaled, i, sc.dim, sc.apc)],
                           !.status = IF ok = 0 .. sc.n - 1 THEN "ok" ELSE "IndexError"]
    /\ UNCHANGED <<Attributes, store, sims, pc, frame, ret, last, io, hist, ctor>>

(* the canonical mapping back: agent i * apc + j owns the slice        *)
(* j * dim .. (j + 1) * dim - 1 of the buffer of simulation i          *)
Gather ==
    /\ sc.stage = "put"
    /\ sc.status = "ok"
    /\ sc' = [sc EXCEPT !.stage = "gathered",
                        !.back = [a \in 0 .. sc.n * sc.apc - 1 |->
                                     [k \in 0 .. sc.dim - 1 |->
                                         sc.out[a \div sc.apc][(a % sc.apc) * sc.dim + k]]]]
    /\ UNCHANGED <<Attributes, store, sims, pc, frame, ret, last, io, hist, ctor>>

ScatterNext == SetAction \/ Gather

SpecScatter == ScatterInit /\ [][ScatterNext]_vars

(* ------------------------------------------------------------------ *)
(* __init__ on its own: a configuration is handed to the constructor   *)
(* ------------------------------------------------------------------ *)
MaxConfAgents == 6
MaxConfCfds == 3
MaxConfSlots == 3
MaxConfDim == 2

ConstructInputs ==
    { [stage |-> "conf", n_total_agents |-> t, n_cfds |-> n, agents_per_cfd |-> a,
       agent_state_dim |-> d, cfd_state_dim |-> d, status |-> "none",
       cfd_states_shape |-> << >>, agent_states_shape |-> << >>, n_models |-> 0, n_seeds |-> 0] :
          t \in 1 .. MaxConfAgents, n \in 1 .. MaxConfCfds, a \in 1 .. MaxConfSlots,
          d \in 1 .. MaxConfDim }

ConstructInit == InitEnv /\ sc = NoScatter /\ ctor \in ConstructInputs

(* len(self._seeds[::agents_per_cfd]) *)
StridedLen(n, stride) == (n + stride - 1) \div stride

(* __init__: the three counts are copied from the configuration and    *)
(* the buffers are allocated from them; no statement compares them     *)
Construct ==
    /\ ctor.stage = "conf"
    /\ ctor' = [ctor EXCEPT
                   !.stage = "constructed",
                   !.status = "ok",
                   !.cfd_states_shape = <<ctor.n_cfds, ctor.agents_per_cfd * ctor.cfd_state_dim>>,
                   !.agent_states_shape = <<ctor.n_total_agents, ctor.agent_state_dim>>,
                   !.n_models = ctor.n_cfds,
                   !.n_seeds = StridedLen(ctor.n_total_agents, ctor.agents_per_cfd)]
    /\ UNCHANGED <<Attributes, store, sims, pc, frame, ret, last, io, hist, sc>>

ConstructNext == Construct

SpecConstruct == ConstructInit /\ [][ConstructNext]_vars

(* ------------------------------------------------------------------ *)
(* A plain training run: the learner calls reset() once, then          *)
(* alternates step_async and step_wait, and stops at the first call    *)
(* that raises                                                         *)
(* ------------------------------------------------------------------ *)
NoFailure == ret.status \in {"none", "ok"}

RunReset == NoFailure /\ iteration = 0 /\ Reset

RunStepAsync == NoFailure /\ iteration > 0 /\ ~_waiting /\ \E actions \in ActionBatches : StepAsync(actions)

RunStepWait == NoFailure /\ _waiting /\ StepWait

RunNext ==
    \/ RunReset
    \/ RunStepAsync
    \/ RunStepWait
    \/ PollTensor
    \/ GetTensor
    \/ DeleteTensor
    \/ AfterGetState
    \/ AfterGetReward
    \/ \E i \in Cfds : SimDepositInit(i)
    \/ \E i \in Cfds : SimTakeAction(i)
    \/ \E i \in Cfds : SimDepositState(i)
    \/ \E i \in Cfds : SimDepositReward(i)
    \/ \E i \in Cfds : SimFinish(i)

SpecRun == Init /\ [][RunNext]_vars

(* The coordinator is a running thread: a store operation it has       *)
(* reached is performed.  A simulation that is launched and not        *)
(* stopped makes its next deposit.                                     *)
RunFairness ==
    /\ WF_vars(PollTensor)
    /\ WF_vars(GetTensor)
    /\ WF_vars(DeleteTensor)
    /\ WF_vars(AfterGetState)
    /\ WF_vars(AfterGetReward)
    /\ \A i \in Cfds : WF_vars(SimDepositInit(i))
    /\ \A i \in Cfds : WF_vars(SimTakeAction(i))
    /\ \A i \in Cfds : WF_vars(SimDepositState(i))
    /\ \A i \in Cfds : WF_vars(SimDepositReward(i))

SpecRunFair == Init /\ [][RunNext]_vars /\ RunFairness

(* ================================================================== *)
(* Properties                                                          *)
(* ================================================================== *)

(* C1, as stated: a step is pending from a step_async until a          *)
(* successful step_wait.  step_async called while a step is pending    *)
(* fails with a protocol error, step_wait called while none is pending *)
(* fails with a protocol error, and the failing call performs no store *)
(* operation and leaves the pending flag as it was.                    *)
C1_PendingUntilSuccessfulWait ==
    /\ (ret.op = "step_async" /\ last.pre.pending)
          => (ret.status = "ValueError" /\ io = << >> /\ _waiting = last.pre.waiting)
    /\ (ret.op = "step_wait" /\ ~last.pre.pending)
          => (ret.status = "ValueError" /\ io = << >> /\ _waiting = last.pre.waiting)

(* C1, amended: the same with "pending" read as the pending-step flag, *)
(* which step_wait clears once both batches are retrieved, before the  *)
(* reset() of a terminal step.                                         *)
C1_ProtocolViolation ==
    /\ (ret.op = "step_async" /\ last.pre.waiting)
          => (ret.status = "ValueError" /\ io = << >> /\ _waiting)
    /\ (ret.op = "step_wait" /\ ~last.pre.waiting)
          => (ret.status = "ValueError" /\ io = << >> /\ ~_waiting)

C1_Witness ==
    /\ ret.op = "step_async"
    /\ ret.status = "ValueError"
    /\ last.pre.waiting
    /\ \A i \in Cfds : state_key[i] # None

(* C2: when reset() has returned, the pending-step flag is false *)
C2_ResetClearsPending == (ret.op = "reset" /\ ret.status = "ok") => ~_waiting

(* C3: the k-th successful step_wait since the latest reset() returns  *)
(* dones false for every agent when k < steps_per_episode and true for *)
(* every agent when k = steps_per_episode                              *)
C3_FixedHorizon ==
    (ret.op = "step_wait" /\ ret.status = "ok") =>
        /\ last.nth < steps_per_episode => \A a \in Agents : ~ret.dones[a]
        /\ last.nth = steps_per_episode => \A a \in Agents : ret.dones[a]
        /\ \A a, b \in Agents : ret.dones[a] = ret.dones[b]

C3_Witness ==
    /\ ret.op = "step_wait"
    /\ ret.status = "ok"
    /\ last.nth = steps_per_episode
    /\ \A a \in Agents : ret.dones[a]

C3_NthBeyondHorizon == ~(ret.op = "step_wait" /\ ret.status = "ok" /\ last.nth > steps_per_episode)

(* ------------------------------------------------------------------ *)
(* What a finished call has read from the store                        *)
(* ------------------------------------------------------------------ *)
ReadsOf(kind, inReset) ==
    {n \in DOMAIN last.reads : last.reads[n].kind = kind /\ last.reads[n].inReset = inReset}

Complete(kind, inReset) ==
    \A i \in Cfds : \E n \in ReadsOf(kind, inReset) : last.reads[n].slot = i

(* the tensor a read entry stands for, from the deposit it names *)
Deposited(tag) ==
    IF tag[1] = "state" THEN StateTensor(tag[2], tag[3]) ELSE RewardTensor(tag[2], tag[3])

Batch(kind, inReset) ==
    [i \in Cfds |->
        Deposited(last.reads[CHOOSE n \in ReadsOf(kind, inReset) : last.reads[n].slot = i].tag)]

Returned == ret.status = "ok" /\ ret.op \in {"reset", "step_wait"}

(* C4: consume-once exchange.  (a) no deposit is handed to the learner *)
(* twice; (b) a key that was read is deleted before the coordinator    *)
(* touches any other key; (c) a call never returns a value deposited   *)
(* for an earlier step than the one it retrieves.                      *)
C4_AtMostOnce == ~hist.twice

C4_DeleteFollowsRead ==
    /\ pc = "delete" => hist.undeleted = {CurKey}
    /\ pc # "delete" => hist.undeleted = {}

C4_NoStaleValue ==
    Returned => \A n \in DOMAIN last.reads : last.reads[n].tag[3] >= last.reads[n].want

C4_ConsumeOnce == C4_AtMostOnce /\ C4_DeleteFollowsRead /\ C4_NoStaleValue

(* C5: a timeout halts.  A call that returns has read, in this call,   *)
(* the tensor of every simulation, and returns exactly those (no slot  *)
(* holds zeros or an older value of the buffers); a call that fails    *)
(* returns nothing and leaves the episode counters where they were at  *)
(* its start, or, when the failure is in reset(), at their reset value *)
C5_TimeoutHalts ==
    /\ (ret.op = "reset" /\ ret.status = "ok") =>
          /\ Complete("state", TRUE)
          /\ ret.observations = _redistribute_state(Batch("state", TRUE))
    /\ (ret.op = "step_wait" /\ ret.status = "ok") =>
          /\ Complete("state", FALSE)
          /\ Complete("reward", FALSE)
          /\ ret.rewards = _recalculate_reward(Batch("reward", FALSE))
          /\ IF last.resets = 0
             THEN ret.observations = _redistribute_state(Batch("state", FALSE))
             ELSE /\ Complete("state", TRUE)
                  /\ ret.observations = _redistribute_state(Batch("state", TRUE))
          /\ \A a \in Agents : ret.rewards[a] # 0 /\ \A d \in DOMAIN ret.observations[a] :
                                                        ret.observations[a][d] # 0
    /\ ret.status = "Warning" =>
          /\ ret.observations = ZeroObs /\ ret.rewards = Zeros(n_total_agents)
          /\ IF last.inReset
             THEN episode_steps = 0 /\ episode_rewards = Zeros(n_total_agents)
             ELSE /\ episode_steps = last.pre.episode_steps
                  /\ episode_rewards = last.pre.episode_rewards

C5_Witness ==
    /\ ret.op = "step_wait"
    /\ ret.status = "Warning"
    /\ last.failKind = "reward"
    /\ last.failAt = 1
    /\ ~last.inReset

(* C6: the keys a reset() assigns are distinct from those of every    *)
(* earlier reset(), and the keys of one fleet are pairwise distinct     *)
C6_KeysDisjoint ==
    /\ \A m, n \in DOMAIN hist.keys : m # n => hist.keys[m] \cap hist.keys[n] = {}
    /\ \A n \in DOMAIN hist.keys : Cardinality(hist.keys[n]) = 3 * n_cfds
    /\ hist.keys # << >> =>
          {state_key[i] : i \in Cfds} \cup {action_key[i] : i \in Cfds}
             \cup {reward_key[i] : i \in Cfds} = hist.keys[Len(hist.keys)]

C6_Witness == Len(hist.keys) >= 2 /\ ret.op = "step_wait" /\ ret.status = "ok" /\ last.resets = 1

(* C7: on a terminal step_wait that resets, the rewards, the           *)
(* terminal_observation and the episode summary are those of the       *)
(* episode that has just finished (retrieved in this call from the     *)
(* fleet being replaced), and the observations returned are those the  *)
(* reset() read from the new fleet.                                    *)
FleetOf(it) == {EnvIdx(it, i) : i \in Cfds}

C7_TerminalSubstitution ==
    (ret.op = "step_wait" /\ ret.status = "ok" /\ last.resets = 1) =>
        /\ Complete("state", FALSE) /\ Complete("reward", FALSE) /\ Complete("state", TRUE)
        /\ \A n \in DOMAIN last.reads :
              IF last.reads[n].inReset
              THEN last.reads[n].tag[2] \in FleetOf(iteration - 1) /\ last.reads[n].tag[3] = 0
              ELSE last.reads[n].tag[2] \in FleetOf(iteration - 2)
        /\ ret.rewards = _recalculate_reward(Batch("reward", FALSE))
        /\ \A a \in Agents :
              /\ ret.dones[a]
              /\ ret.infos[a].terminal
              /\ ret.infos[a].terminal_observation = _redistribute_state(Batch("state", FALSE))[a]
              /\ ret.infos[a].episode.r = last.pre.episode_rewards[a] + ret.rewards[a]
              /\ ret.infos[a].episode.l = last.pre.episode_steps + 1
        /\ ret.observations = _redistribute_state(Batch("state", TRUE))

C7_Witness ==
    /\ ret.op = "step_wait" /\ ret.status = "ok" /\ last.resets = 1
    /\ \A a \in Agents : ret.infos[a].terminal /\ ret.infos[a].episode.l = steps_per_episode

(* C8: the iteration counter never decreases and grows by exactly 1 on *)
(* every reset(); a terminal step_wait closes (every simulation        *)
(* stopped, nothing launched, no reset) when the counter has reached   *)
(* total_iterations and performs exactly one reset() otherwise.        *)
C8_TerminalStep ==
    /\ iteration = Len(hist.keys)
    /\ iteration = hist.launched
    /\ (ret.op = "step_wait" /\ ret.status = "ok") =>
          IF \A a \in Agents : ret.dones[a]
          THEN IF last.pre.iteration >= total_iterations
               THEN /\ last.closed /\ last.resets = 0
                    /\ iteration = last.pre.iteration
                    /\ \A i \in Cfds : models[i] = None /\ sims[i].phase \in {"stopped", "finished"}
               ELSE /\ ~last.closed /\ last.resets = 1
                    /\ iteration = last.pre.iteration + 1
          ELSE ~last.closed /\ last.resets = 0 /\ iteration = last.pre.iteration
    /\ (ret.op = "step_wait" /\ ret.status = "Warning") =>
          IF last.inReset
          THEN /\ last.pre.iteration < total_iterations
               /\ iteration = last.pre.iteration + 1
          ELSE iteration = last.pre.iteration

C8_CounterStep ==
    /\ iteration' \in {iteration, iteration + 1}
    /\ (iteration' = iteration + 1) <=> (Len(hist'.keys) = Len(hist.keys) + 1)
    /\ Len(hist'.keys) \in {Len(hist.keys), Len(hist.keys) + 1}

C8_IterationBound == [] C8_TerminalStep /\ [][C8_CounterStep]_vars

C8_Witness ==
    /\ ret.op = "step_wait" /\ ret.status = "ok" /\ last.closed
    /\ iteration = total_iterations

(* C10: when a state key times out in step_wait's own retrieval after  *)
(* the states of earlier simulations were read, the stored             *)
(* per-simulation and per-agent state buffers are what they were       *)
(* before the call                                                     *)
C10_PartialFailureIsolation ==
    (ret.op = "step_wait" /\ ret.status = "Warning" /\ last.failKind = "state" /\ ~last.inReset) =>
        /\ _cfd_states = last.pre.cfd_states
        /\ _agent_states = last.pre.agent_states

C10_Witness ==
    /\ ret.op = "step_wait" /\ ret.status = "Warning"
    /\ last.failKind = "state" /\ ~last.inReset
    /\ last.failAt = 1 /\ Len(last.reads) = 1
    /\ last.pre.cfd_states # Zeros2(n_cfds, agents_per_cfd * cfd_state_dim)

(* C9: for every shape, the buffer written for simulation i holds at   *)
(* j * dim + k component k of the scaled action of agent i * apc + j,  *)
(* and gathering the buffers gives back the agent-level batch          *)
C9_ScatterGather ==
    /\ sc.stage \in {"put", "gathered"} =>
          /\ sc.status = "ok"
          /\ DOMAIN sc.out = 0 .. sc.n - 1
          /\ \A i \in 0 .. sc.n - 1 : \A j \in 0 .. sc.apc - 1 : \A k \in 0 .. sc.dim - 1 :
                sc.out[i][j * sc.dim + k] = sc.scaled[i * sc.apc + j][k]
    /\ sc.stage = "gathered" => sc.back = sc.scaled

(* the same restricted to one component per agent, where it holds *)
C9_ScalarActions ==
    (sc.stage \in {"put", "gathered"} /\ sc.dim = 1) =>
          /\ sc.status = "ok"
          /\ \A i \in 0 .. sc.n - 1 : \A j \in 0 .. sc.apc - 1 :
                sc.out[i][j] = sc.scaled[i * sc.apc + j][0]
          /\ sc.stage = "gathered" => sc.back = sc.scaled

(* C11: a construction succeeds only for a configuration with          *)
(* n_total_agents = n_cfds * agents_per_cfd; any other is rejected     *)
C11_ShapeInvariant ==
    ctor.stage = "constructed" =>
        /\ ctor.status = "ok" <=> ctor.n_total_agents = ctor.n_cfds * ctor.agents_per_cfd
        /\ ctor.status = "ok" =>
              ctor.agent_states_shape[1] = ctor.cfd_states_shape[1] * ctor.agents_per_cfd

(* C12: a stop is sent to a simulation only when its handle is set and *)
(* the runtime does not report it finished, and the handles are        *)
(* cleared afterwards; no simulation is sent a stop twice; a close()   *)
(* that follows a close() sends no stop and changes nothing            *)
C12_StopOnce ==
    /\ ~hist.restopped
    /\ \A i \in Cfds : hist.stops[i] <= 1
    /\ ret.op = "close" => \A i \in Cfds : models[i] = None

C12_StopStep ==
    /\ \A i \in Cfds :
          (sims'[i].phase = "stopped" /\ sims[i].phase # "stopped") =>
              /\ models[i] # None
              /\ sims[i].phase # "finished"
              /\ \A j \in Cfds : models'[j] = None
    /\ (ret.op = "close" /\ ret'.op = "close") => UNCHANGED <<Attributes, store, sims, hist>>

C12_IdempotentStop == [] C12_StopOnce /\ [][C12_StopStep]_vars

C12_Witness ==
    /\ ret.op = "close" /\ pc = "idle"
    /\ \E i \in Cfds : hist.stops[i] = 1 /\ sims[i].phase = "stopped"
    /\ \E i \in Cfds : hist.stops[i] = 0 /\ sims[i].phase = "finished"

(* C13, as stated: after a reset() and K successful steps of the       *)
(* episode, the action, reward and scaled-action logs of each          *)
(* simulation of the fleet hold K lines and its state log K + 1; a     *)
(* step_wait that fails has appended no line                           *)
C13_LineCounts ==
    hist.resetOk =>
        \A i \in Cfds :
            /\ Lines(traj, envs[i]).action = hist.okWaits
            /\ Lines(traj, envs[i]).reward = hist.okWaits
            /\ Lines(traj, envs[i]).scaled_action = hist.okWaits
            /\ Lines(traj, envs[i]).state = hist.okWaits + 1

C13_TrajectoryLines ==
    /\ C13_LineCounts
    /\ (ret.op = "step_wait" /\ ret.status # "ok") => last.lines = 0

(* C13, amended: a step_wait that fails in its own retrieval has       *)
(* appended no line; one that fails in the reset() of a terminal step  *)
(* has appended the step's line to each log of the finished fleet      *)
C13_TrajectoryLinesRetrieval ==
    /\ C13_LineCounts
    /\ (ret.op = "step_wait" /\ ret.status # "ok") =>
          last.lines = IF last.inReset THEN 4 * n_cfds ELSE 0

C13_Witness ==
    /\ hist.resetOk /\ hist.okWaits = steps_per_episode
    /\ ret.op = "step_wait" /\ ret.status = "ok"
    /\ \A i \in Cfds : Lines(traj, envs[i]).state = steps_per_episode + 1

(* C14: in a run of one reset() followed by successful steps only,     *)
(* the terminal step_wait of episode e launches the next fleet when    *)
(* e < total_iterations and closes when e = total_iterations, so that  *)
(* total_iterations fleets are launched in all                         *)
C14_ExactFleetCount ==
    /\ hist.launched <= total_iterations
    /\ (ret.op = "step_wait" /\ ret.status = "ok" /\ \A a \in Agents : ret.dones[a]) =>
          IF last.pre.iteration < total_iterations
          THEN /\ last.resets = 1 /\ ~last.closed
               /\ hist.launched = last.pre.iteration + 1
               /\ \A i \in Cfds : models[i] # None
          ELSE /\ last.closed /\ last.resets = 0
               /\ hist.launched = total_iterations
               /\ \A i \in Cfds : models[i] = None
    /\ last.closed => hist.launched = total_iterations

C14_Witness ==
    /\ ret.op = "step_wait" /\ ret.status = "ok" /\ last.closed
    /\ hist.launched = total_iterations
    /\ hist.okWaits = steps_per_episode

(* C15, as stated, for an episode whose reset() succeeded: a step_wait *)
(* that follows a step_wait which timed out on a state or reward key   *)
(* of the same pending step does not succeed                           *)
C15_TimeoutUnrecoverable ==
    (ret.op = "step_wait" /\ ret.status = "ok" /\ last.pre.resetOk) =>
        (~last.pre.retry /\ last.pre.failed = "none")

(* C15, amended: in an episode whose reset() succeeded, once a         *)
(* step_wait has timed out after a key of the pending step was read,   *)
(* every later step_wait for that step times out as well               *)
C15_PartialTimeoutUnrecoverable ==
    (ret.op = "step_wait" /\ last.pre.resetOk /\ last.pre.failed = "partial") =>
        /\ ret.status = "Warning"
        /\ ~last.inReset
        /\ hist.failed = "partial"
        /\ _waiting

C15_Witness ==
    /\ ret.op = "step_wait" /\ ret.status = "Warning"
    /\ last.pre.resetOk /\ last.pre.failed = "partial"
    /\ last.failKind = "state" /\ last.failAt = 0
    /\ \A i \in Cfds : sims[i].phase = "await"

(* C16: whenever the pending-step flag is true, an action buffer of    *)
(* the pending step has been written to the current action key of      *)
(* every simulation of the current fleet (hist.put: the slots whose    *)
(* current action key the pending step_async has written)              *)
C16_PendingImpliesDelivered == _waiting => hist.put = Cfds

(* the same for a step_async that returned normally, right after it    *)
C16_AcceptedDelivers ==
    (ret.op = "step_async" /\ ret.status = "ok") =>
        /\ _waiting /\ hist.put = Cfds
        /\ \A i \in Cfds : io[i + 1] = [op |-> "put", key |-> action_key[i]]

(* C17: when reset() launches the new fleet, no process of the fleet   *)
(* it replaces is still running; at any time the running simulations   *)
(* are those of the latest reset() and the coordinator holds their     *)
(* handles                                                             *)
C17_FleetReplacement ==
    /\ ~hist.overlap
    /\ \A i \in Cfds :
          sims[i].phase \in Running =>
              /\ iteration > 0
              /\ sims[i].gidx = EnvIdx(iteration - 1, i)
              /\ models[i] = <<sims[i].gidx>>

C17_Witness ==
    /\ Len(hist.keys) >= 2
    /\ ret.op = "reset" /\ ret.status = "ok"
    /\ last.stopped = n_cfds
    /\ \A i \in Cfds : sims[i].phase \in Running

(* C18: whatever the interleaving of the deposits, a step_wait that    *)
(* returns has put into slot i of the state and of the reward batch a  *)
(* value deposited by simulation i of the fleet, and, in an episode    *)
(* whose reset() succeeded, the value simulation i deposited for this  *)
(* step; what it returns is built from exactly these batches           *)
StepFleet(i) == EnvIdx(last.pre.iteration - 1, i)

StepBatch(kind) ==
    [i \in Cfds |-> IF kind = "state" THEN StateTensor(StepFleet(i), last.nth)
                    ELSE RewardTensor(StepFleet(i), last.nth)]

C19_WaitInProgress == pc # "idle" /\ OuterOp = "step_wait"

C19_PollBudget ==
    /\ pc \in {"poll", "get"} => frame.tries < PollTries
    /\ (ret.op = "step_wait" /\ ret.status = "ok") => ~_waiting

C19_AllDeposit == \A i \in Cfds : sims[i].phase \in Running

C20_Accepted == pc = "idle" /\ ~_waiting /\ ret'.op = "step_async"

C20_Effect ==
    /\ pc' = "idle"
    /\ _waiting'
    /\ Len(io') = n_cfds
    /\ \A i \in Cfds : io'[i + 1] = [op |-> "put", key |-> action_key[i]]
    /\ \A i \in Cfds : /\ Exists(action_key[i])'
                        /\ store'[action_key[i]].tensor =
                               SetActionBuffer(_scaled_agent_actions', i, cfd_action_dim,
                                               agents_per_cfd)
    /\ \A k \in DOMAIN store : k \in DOMAIN store'
    /\ \A k \in DOMAIN store' :
           k \notin {action_key[i] : i \in Cfds} => k \in DOMAIN store /\ store'[k] = store[k]
    /\ UNCHANGED <<episode_steps, episode_rewards, iteration, state_key, action_key,
                   reward_key, models, envs, sims, traj, _cfd_states, _agent_states,
                   _cfd_rewards, _agent_rewards>>

C20_NarrowEffect == [][C20_Accepted => C20_Effect]_vars

(* the same for the calls that return normally *)
C20_ReturnedNarrowEffect == [][(C20_Accepted /\ ret'.status = "ok") => C20_Effect]_vars

(* ------------------------------------------------------------------ *)
(* C21: the episode summary.  When step_wait() returns with the        *)
(* episode ended, every agent's infos carries episode.l =              *)
(* steps_per_episode and episode.r = the sum of the rewards step_wait  *)
(* has handed that agent since the latest reset(); when it returns     *)
(* with the episode not ended, infos carries no episode entry.         *)
(* ------------------------------------------------------------------ *)
C21_EpisodeSummary ==
    (ret.op = "step_wait" /\ ret.status = "ok") =>
        IF \A a \in Agents : ret.dones[a]
        THEN \A a \in Agents :
                /\ ret.infos[a].terminal
                /\ ret.infos[a].episode.l = steps_per_episode
                /\ ret.infos[a].episode.r = last.sum[a]
        ELSE ret.infos = NoInfos

C21_Witness ==
    /\ ret.op = "step_wait" /\ ret.status = "ok"
    /\ \A a \in Agents : ret.dones[a]
    /\ last.resets = 1 /\ iteration = 2
    /\ \A a \in Agents : /\ ret.rewards[a] > 0
                          /\ ret.infos[a].episode.r > ret.rewards[a]

====
